---- MODULE Spec2Model ----
(***************************************************************************)
(* A model of agate's TableSet (src/agate/tableset.py) and Number data     *)
(* type (src/agate/data_types/number.py).                                  *)
(*                                                                         *)
(* Python objects that can be mutated and shared (the caller's group       *)
(* mapping, a TableSet's _tables, the proxy's local groups) live in heap,  *)
(* a function from object ids to ordered mappings; a mapping is a sequence *)
(* of <<key, value>> entries in insertion order.  Tables, TableSets and    *)
(* scalar values are immutable records; a TableSet record refers to its    *)
(* _tables mapping by id.  Keys and texts are sequences of characters.     *)
(***************************************************************************)
EXTENDS Integers, Sequences, FiniteSets, TLC

VARIABLES
    heap,       \* id -> ordered mapping (sequence of <<key, value>>)
    group,      \* id of the mapping the caller currently holds
    sets,       \* the TableSets the caller holds, in order of construction
    result,     \* outcome of the last operation
    d,          \* Number: the value handed to test / cast
    locale,     \* Number: self._locale
    tested,     \* Number: outcome of test(d), or NotRun
    casted      \* Number: outcome of cast(d), or NotRun

vars == <<heap, group, sets, result, d, locale, tested, casted>>
tsVars == <<heap, group, sets, result>>
numVars == <<d, locale, tested, casted>>

\* Bounds of the model.
MaxMaps == 3
MaxLen == 3

None == "None"
NotRun == [status |-> "none"]

Ok(v) == [status |-> "ok", value |-> v]
Raise(e) == [status |-> "raise", exc |-> e]

Min(a, b) == IF a < b THEN a ELSE b

(***************************************************************************)
(* Ordered mappings (OrderedDict).                                         *)
(***************************************************************************)
DictKeys(m) == [i \in 1..Len(m) |-> m[i][1]]
DictValues(m) == [i \in 1..Len(m) |-> m[i][2]]
DictHas(m, k) == \E i \in 1..Len(m) : m[i][1] = k
DictIndex(m, k) == CHOOSE i \in 1..Len(m) : m[i][1] = k
DictGet(m, k) == m[DictIndex(m, k)][2]
\* m[k] = v: an existing key keeps its position, a new key goes last.
DictSet(m, k, v) ==
    IF DictHas(m, k) THEN [m EXCEPT ![DictIndex(m, k)] = <<k, v>>]
    ELSE Append(m, <<k, v>>)
DictDel(m, k) == SelectSeq(m, LAMBDA e : e[1] # k)

\* The smallest id that names no live object.
Alloc(h) == CHOOSE i \in 1..(Cardinality(DOMAIN h) + 1) :
                /\ i \notin DOMAIN h
                /\ \A j \in 1..(i - 1) : j \in DOMAIN h
Free(h, id) == [i \in DOMAIN h \ {id} |-> h[i]]
\* No chain of nested TableSets is longer than the number of live mappings;
\* a longer descent means a cycle, which Python answers with a RuntimeError
\* (or never answers).
Fuel(h) == Cardinality(DOMAIN h) + 1

(***************************************************************************)
(* Tables (agate.table.Table, an external collaborator): a schema and rows *)
(* of cells; cells are integer codes whatever the declared type.           *)
(***************************************************************************)
MkTable(names, types, rows) ==
    [kind |-> "Table", column_names |-> names, column_types |-> types,
     rows |-> rows]
TableA == MkTable(<<"x", "y">>, <<"Number", "Number">>, << <<1, 2>>, <<3, 4>> >>)
TableB == MkTable(<<"x", "y">>, <<"Number", "Number">>, << <<5, 6>> >>)
TableC == MkTable(<<"x", "z">>, <<"Number", "Number">>, << <<7, 8>> >>)
TableD == MkTable(<<"x", "y">>, <<"Number", "Text">>, << <<9, 0>> >>)
TablePool == {TableA, TableB, TableC, TableD}

KeyA == <<"a">>
KeyB == <<"b">>
Keys == {KeyA, KeyB}
\* The (key_name, key_type) arguments callers pass; the first is the default.
InitArgs == {[key_name |-> "group", key_type |-> None],
             [key_name |-> "state", key_type |-> "Number"]}

ColumnIndex(t, name) == CHOOSE i \in 1..Len(t.column_names) : t.column_names[i] = name
HasColumn(t, name) == \E i \in 1..Len(t.column_names) : t.column_names[i] = name

(***************************************************************************)
(* TableSet.__init__                                                       *)
(***************************************************************************)
\* while isinstance(sample, TableSet): sample = list(sample.values())[0]
RECURSIVE Descend(_, _, _)
Descend(h, v, fuel) ==
    IF v.kind # "TableSet" THEN Ok(v)
    ELSE IF fuel = 0 THEN Raise("RuntimeError")
    ELSE IF Len(h[v.tables]) = 0 THEN Raise("IndexError")
    ELSE Descend(h, h[v.tables][1][2], fuel - 1)

\* The object a member compares by: only Tables and TableSets carry
\* _column_types and _column_names.
HasSchema(v) == v.kind \in {"Table", "TableSet"}

\* The member check with the comparison of column names (lines 91-92) left out.
SchemaCheckTypesOnly(items, column_types, column_names) ==
    LET bad == {i \in 1..Len(items) :
                   \/ ~HasSchema(items[i][2])
                   \/ items[i][2].column_types # column_types}
    IN  IF bad = {} THEN "ok"
        ELSE LET i == CHOOSE j \in bad : \A l \in bad : j <= l
             IN  IF ~HasSchema(items[i][2]) THEN "AttributeError" ELSE "types"

\* for name, table in group.items(): the first member that fails decides.
SchemaCheck(items, column_types, column_names) ==
    LET bad == {i \in 1..Len(items) :
                   \/ ~HasSchema(items[i][2])
                   \/ items[i][2].column_types # column_types
                   \/ items[i][2].column_names # column_names}
    IN  IF bad = {} THEN "ok"
        ELSE LET i == CHOOSE j \in bad : \A l \in bad : j <= l
                 t == items[i][2]
             IN  IF ~HasSchema(t) THEN "AttributeError"
                 ELSE IF t.column_types # column_types THEN "types"
                 ELSE "names"

\* self._tables = group: the caller's own mapping kept, not a copy of it.
CopyGroupAlias(h, g) == [heap |-> h, id |-> g]

\* copy(group): a new mapping object with the same entries.
CopyGroup(h, g) ==
    LET id == Alloc(h) IN [heap |-> h @@ (id :> h[g]), id |-> id]

KeyTypeOrText(key_type) == IF key_type = None THEN "Text" ELSE key_type

TableSetInit(h, g, key_name, key_type) ==
    LET items == h[g] IN
    IF Len(items) = 0 THEN Raise("IndexError")
    ELSE
      LET s == Descend(h, items[1][2], Fuel(h)) IN
      IF s.status # "ok" THEN s
      ELSE IF s.value.kind # "Table" THEN Raise("AttributeError")
      ELSE
        LET chk == SchemaCheck(items, s.value.column_types, s.value.column_names)
            c == CopyGroup(h, g)
        IN  IF chk = "AttributeError" THEN Raise("AttributeError")
            ELSE IF chk = "types" THEN Raise("ValueError: column types")
            ELSE IF chk = "names" THEN Raise("ValueError: column names")
            ELSE [status |-> "ok",
                  heap |-> c.heap,
                  value |-> [kind |-> "TableSet",
                             tables |-> c.id,
                             key_name |-> key_name,
                             key_type |-> KeyTypeOrText(key_type),
                             sample_table |-> s.value,
                             column_types |-> s.value.column_types,
                             column_names |-> s.value.column_names]]

(***************************************************************************)
(* What a TableSet holds, with the references followed: the reading of a   *)
(* TableSet that does not depend on object ids.                            *)
(***************************************************************************)
RECURSIVE Tree(_, _, _)
Tree(h, v, fuel) ==
    IF v.kind # "TableSet" THEN v
    ELSE IF fuel = 0 \/ v.tables \notin DOMAIN h THEN [kind |-> "Cycle"]
    ELSE [kind |-> "TableSet",
          key_name |-> v.key_name,
          key_type |-> v.key_type,
          column_types |-> v.column_types,
          column_names |-> v.column_names,
          items |-> [i \in 1..Len(h[v.tables]) |->
                        <<h[v.tables][i][1], Tree(h, h[v.tables][i][2], fuel - 1)>>]]

(***************************************************************************)
(* Table operations (agate.table.Table, an external collaborator).  Three  *)
(* of the sixteen proxied names are modelled: one that changes the schema, *)
(* one that changes the rows, and one that returns a single value.         *)
(***************************************************************************)
ProxiedMethods ==
    {"select", "where", "find", "stdev_outliers", "mad_outliers",
     "pearson_correlation", "order_by", "limit", "distinct", "inner_join",
     "left_outer_join", "group_by", "compute", "percent_change", "rank",
     "z_scores"}

Project(seq, idx) == [i \in 1..Len(idx) |-> seq[idx[i]]]

\* getattr(table, method)(*args) on a Table
TableMethod(t, method, args) ==
    IF method = "select" THEN
        IF \E i \in 1..Len(args) : ~HasColumn(t, args[i])
        THEN Raise("ColumnDoesNotExistError")
        ELSE LET idx == [i \in 1..Len(args) |-> ColumnIndex(t, args[i])]
             IN  Ok(MkTable(args, Project(t.column_types, idx),
                            [r \in 1..Len(t.rows) |-> Project(t.rows[r], idx)]))
    ELSE IF method = "limit" THEN
        Ok(MkTable(t.column_names, t.column_types,
                   SubSeq(t.rows, 1, Min(args[1], Len(t.rows)))))
    ELSE IF method = "pearson_correlation" THEN
        Ok([kind |-> "Value", of |-> t.rows])
    ELSE Raise("AttributeError")

\* The calls the caller makes through a proxy.
MethodCalls ==
    {[method |-> "select", args |-> <<"x">>],
     [method |-> "select", args |-> <<"q">>],
     [method |-> "limit", args |-> <<1>>],
     [method |-> "pearson_correlation", args |-> <<"x", "y">>]}

ChainedCalls == {c \in MethodCalls : c.method = "limit" \/ c.args = <<"x">>}

(***************************************************************************)
(* TableMethodProxy.__call__                                               *)
(***************************************************************************)
\* The keywords with key_type=self.tableset._key_type handed on as well.
ProxyKwargsKeepType(ts) == [key_name |-> ts.key_name, key_type |-> ts.key_type]

\* The keywords with no key_name handed on: TableSet(groups).
ProxyKwargsDefaultName(ts) == [key_name |-> "group", key_type |-> None]

\* TableSet(groups, key_name=self.tableset._key_name): key_type is left to
\* its default.
ProxyKwargs(ts) == [key_name |-> ts.key_name, key_type |-> None]

\* The local groups goes out of scope when the call returns.
Release(h, gid, v) == IF v.tables = gid THEN h ELSE Free(h, gid)

RECURSIVE ProxyCall(_, _, _, _, _)
RECURSIVE ProxyLoop(_, _, _, _, _, _, _)

\* getattr(value, self.method_name)(*args, **kwargs): a member TableSet
\* answers with its own proxy.
CallMethod(h, v, method, args, fuel) ==
    IF v.kind = "Table" THEN
        LET r == TableMethod(v, method, args)
        IN  IF r.status = "ok" THEN [status |-> "ok", heap |-> h, value |-> r.value]
            ELSE r
    ELSE IF v.kind = "TableSet" /\ method \in ProxiedMethods THEN
        ProxyCall(h, v, method, args, fuel)
    ELSE Raise("AttributeError")

\* for key, value in self.tableset._tables.items(): groups[key] = ...
ProxyLoop(h, gid, items, i, method, args, fuel) ==
    IF i > Len(items) THEN [status |-> "ok", heap |-> h]
    ELSE LET r == CallMethod(h, items[i][2], method, args, fuel)
         IN  IF r.status # "ok" THEN r
             ELSE ProxyLoop([r.heap EXCEPT ![gid] = DictSet(@, items[i][1], r.value)],
                            gid, items, i + 1, method, args, fuel)

ProxyCall(h, ts, method, args, fuel) ==
    IF fuel = 0 THEN Raise("RuntimeError")
    ELSE
      LET gid == Alloc(h)
          r == ProxyLoop(h @@ (gid :> <<>>), gid, h[ts.tables], 1, method, args,
                         fuel - 1)
      IN  IF r.status # "ok" THEN r
          ELSE LET kw == ProxyKwargs(ts)
                   t == TableSetInit(r.heap, gid, kw.key_name, kw.key_type)
               IN  IF t.status # "ok" THEN t
                   ELSE [t EXCEPT !.heap = Release(t.heap, gid, t.value)]

(***************************************************************************)
(* Aggregations (agate.aggregations, an external collaborator).            *)
(***************************************************************************)
RECURSIVE SumSeq(_)
SumSeq(s) == IF s = <<>> THEN 0 ELSE Head(s) + SumSeq(Tail(s))

ColumnCells(t, name) == [r \in 1..Len(t.rows) |-> t.rows[r][ColumnIndex(t, name)]]
ColumnType(t, name) == t.column_types[ColumnIndex(t, name)]

\* aggregation.get_aggregate_column_type(column)
AggregateColumnType(aggregation, t, name) == "Number"

\* column.aggregate(aggregation)
ColumnAggregate(aggregation, t, name) ==
    IF aggregation = "Sum" THEN
        IF ColumnType(t, name) = "Number" THEN Ok(SumSeq(ColumnCells(t, name)))
        ELSE Raise("UnsupportedAggregationError")
    ELSE Ok(Len(t.rows))

\* The aggregation lists the caller passes: triples
\* <<column_name, aggregation, new_column_name>>.
AggregationLists ==
    {<<>>,
     << <<"x", "Sum", "total">>, <<"y", "Length", "count">> >>,
     << <<"q", "Sum", "total">> >>}

(***************************************************************************)
(* TableSet._aggregate and TableSet.aggregate                              *)
(***************************************************************************)

FirstIn(S) == CHOOSE i \in S : \A j \in S : i <= j

\* new_row = []: the row begun without the group's key.
NewRowNoKey(name, table, aggregations) ==
    [i \in 1..Len(aggregations) |->
        ColumnAggregate(aggregations[i][2], table, aggregations[i][1]).value]

\* new_row = [name]; for each triple: new_row.append(c.aggregate(aggregation))
NewRow(name, table, aggregations) ==
    <<name>> \o [i \in 1..Len(aggregations) |->
                    ColumnAggregate(aggregations[i][2], table, aggregations[i][1]).value]

\* The Regular Tables branch.
AggregateTables(ts, items, aggregations) ==
    LET n == Len(aggregations)
        sample == ts.sample_table
        missing == {i \in 1..n : ~HasColumn(sample, aggregations[i][1])}
        \* the first (member, triple) that raises, in the order of the loops
        rowErr(m) ==
            LET t == items[m][2]
                bad == {i \in 1..n :
                          \/ t.kind # "Table"
                          \/ ~HasColumn(t, aggregations[i][1])
                          \/ ColumnAggregate(aggregations[i][2], t,
                                             aggregations[i][1]).status # "ok"}
            IN  IF bad = {} THEN None
                ELSE LET i == FirstIn(bad) IN
                     IF t.kind # "Table" THEN "AttributeError"
                     ELSE IF ~HasColumn(t, aggregations[i][1])
                     THEN "ColumnDoesNotExistError"
                     ELSE ColumnAggregate(aggregations[i][2], t,
                                          aggregations[i][1]).exc
        badRows == {m \in 1..Len(items) : rowErr(m) # None}
    IN  IF missing # {} THEN Raise("ColumnDoesNotExistError")
        ELSE IF badRows # {} THEN Raise(rowErr(FirstIn(badRows)))
        ELSE [status |-> "ok",
              column_names |-> <<ts.key_name>> \o
                  [i \in 1..n |-> aggregations[i][3]],
              column_types |-> <<ts.key_type>> \o
                  [i \in 1..n |->
                      AggregateColumnType(aggregations[i][2], sample,
                                          aggregations[i][1])],
              output |-> [m \in 1..Len(items) |->
                            NewRow(items[m][1], items[m][2], aggregations)]]

RECURSIVE AggregateInner(_, _, _, _)
RECURSIVE NestedLoop(_, _, _, _, _, _)

\* for row in nested_output: row.insert(0, key)
InsertKey(key, nested_output) ==
    [j \in 1..Len(nested_output) |-> <<key>> \o nested_output[j]]

\* for key, tableset in self._tables.items(): ... output.append(row).  acc
\* holds output and the column_names, column_types assigned last.
NestedLoop(h, items, i, aggregations, fuel, acc) ==
    IF i > Len(items) THEN acc
    ELSE IF items[i][2].kind # "TableSet" THEN Raise("AttributeError")
    ELSE LET r == AggregateInner(h, items[i][2], aggregations, fuel - 1)
         IN  IF r.status # "ok" THEN r
             ELSE NestedLoop(h, items, i + 1, aggregations, fuel,
                             [status |-> "ok",
                              column_names |-> r.column_names,
                              column_types |-> r.column_types,
                              output |-> acc.output \o InsertKey(items[i][1], r.output)])

AggregateInner(h, ts, aggregations, fuel) ==
    LET items == h[ts.tables] IN
    IF fuel = 0 THEN Raise("RuntimeError")
    ELSE IF Len(items) = 0 THEN Raise("IndexError")
    ELSE IF items[1][2].kind = "TableSet" THEN
      \* Process nested TableSet's
      LET r == NestedLoop(h, items, 1, aggregations, fuel,
                          [status |-> "ok", column_names |-> <<>>,
                           column_types |-> <<>>, output |-> <<>>])
      IN  IF r.status # "ok" THEN r
          ELSE [status |-> "ok",
                \* the names and types the last member returned
                column_names |-> <<ts.key_name>> \o r.column_names,
                column_types |-> <<ts.key_type>> \o r.column_types,
                output |-> r.output]
    ELSE AggregateTables(ts, items, aggregations)

\* zip(column_names, column_types) stops at the shorter of the two.
Zip(a, b) == [i \in 1..Min(Len(a), Len(b)) |-> <<a[i], b[i]>>]

\* Table._fork(rows, column_info): a new Table of these rows and columns.
Fork(rows, column_info) ==
    MkTable([i \in 1..Len(column_info) |-> column_info[i][1]],
            [i \in 1..Len(column_info) |-> column_info[i][2]],
            rows)

Aggregate(h, ts, aggregations) ==
    LET r == AggregateInner(h, ts, aggregations, Fuel(h))
    IN  IF r.status # "ok" THEN r
        ELSE Ok(Fork(r.output, Zip(r.column_names, r.column_types)))

(***************************************************************************)
(* TableSet.from_csv                                                       *)
(***************************************************************************)
\* str.strip(chars): leading and trailing characters in chars are removed.
RECURSIVE LStrip(_, _)
LStrip(s, chars) ==
    IF s # <<>> /\ Head(s) \in chars THEN LStrip(Tail(s), chars) ELSE s
RECURSIVE RStrip(_, _)
RStrip(s, chars) ==
    IF s # <<>> /\ s[Len(s)] \in chars THEN RStrip(SubSeq(s, 1, Len(s) - 1), chars)
    ELSE s
Strip(s, chars) == RStrip(LStrip(s, chars), chars)

\* os.path.split(path)[1].strip('.csv')
CsvName(filename) == Strip(filename, {".", "c", "s", "v"})

\* Table.from_csv(path, column_info): the file's rows under the given
\* columns, or under the inferred ones with a TypeTester.
TableFromCsv(file, column_info) ==
    IF column_info.kind = "TypeTester" THEN file.table
    ELSE MkTable(column_info.names, column_info.types, file.table.rows)

RECURSIVE CsvLoop(_, _, _)
CsvLoop(files, column_info, tables) ==
    IF files = <<>> THEN tables
    ELSE LET table == TableFromCsv(Head(files), column_info)
             info == IF column_info.kind = "TypeTester"
                     THEN [kind |-> "columns", names |-> table.column_names,
                           types |-> table.column_types]
                     ELSE column_info
         IN  CsvLoop(Tail(files), info,
                     DictSet(tables, CsvName(Head(files).name), table))

\* The directories the caller loads: the *.csv files glob finds, in the
\* order it yields them, each with the Table its content parses to.
CsvFile(name, table) == [name |-> name, table |-> table]
Directories ==
    {<<>>,
     << CsvFile(<<"a", ".", "c", "s", "v">>, TableA) >>,
     << CsvFile(<<"b", ".", "c", "s", "v">>, TableB),
        CsvFile(<<"a", ".", "c", "s", "v">>, TableC) >>,
     << CsvFile(<<"a", ".", "c", "s", "v">>, TableA),
        CsvFile(<<"c", "a", ".", "c", "s", "v">>, TableB) >>}

FromCsv(h, is_dir, files, use_inference, header) ==
    IF use_inference /\ ~header THEN Raise("ValueError: TypeTester without headers")
    ELSE IF ~is_dir THEN Raise("IOError")
    ELSE LET column_info == IF use_inference THEN [kind |-> "TypeTester"]
                            ELSE [kind |-> "columns", names |-> <<"x", "y">>,
                                  types |-> <<"Number", "Number">>]
             gid == Alloc(h)
             h1 == h @@ (gid :> CsvLoop(files, column_info, <<>>))
             t == TableSetInit(h1, gid, "group", None)
         IN  IF t.status # "ok" THEN t
             ELSE [t EXCEPT !.heap = Release(t.heap, gid, t.value)]

(***************************************************************************)
(* Number (src/agate/data_types/number.py).  A value handed to test or     *)
(* cast is a record: kind "text" (chars), "decimal", "null" (None), "int", *)
(* "float", "tuple" (of len items) or "object" (anything else).            *)
(***************************************************************************)
\* The characters texts are made of.
Alphabet == {"1", ".", ",", "-", " ", "$", "%", "n", "a", "N"}
Digits == {"0", "1", "2", "3", "4", "5", "6", "7", "8", "9"}
Whitespace == {" "}
CURRENCY_SYMBOLS ==
    <<"afghani", "$", "florin", "riel", "yen", "colon", "peso", "pound", "euro",
      "cent", "rial", "shekel", "won", "kip", "tugrik", "naira", "baht", "lira",
      "dong">>
Locales == {"en_US", "de_DE"}
\* DataType.null_values as configured (agate.data_types.base)
NullValues == {<<>>, <<"n", "a">>}

LowerChar(c) == IF c = "N" THEN "n" ELSE c
Lower(s) == [i \in 1..Len(s) |-> LowerChar(s[i])]

\* str.replace(old, new) for a one-character old; new is a sequence
RECURSIVE Replace(_, _, _)
Replace(s, old, new) ==
    IF s = <<>> THEN <<>>
    ELSE (IF Head(s) = old THEN new ELSE <<Head(s)>>) \o Replace(Tail(s), old, new)

DigitValue(c) ==
    CASE c = "0" -> 0 [] c = "1" -> 1 [] c = "2" -> 2 [] c = "3" -> 3 [] c = "4" -> 4
      [] c = "5" -> 5 [] c = "6" -> 6 [] c = "7" -> 7 [] c = "8" -> 8 [] c = "9" -> 9
RECURSIVE Coefficient(_, _)
Coefficient(s, acc) ==
    IF s = <<>> THEN acc ELSE Coefficient(Tail(s), 10 * acc + DigitValue(Head(s)))

MkDecimal(sign, coefficient, exponent) ==
    [kind |-> "decimal", special |-> "finite", sign |-> sign,
     coefficient |-> coefficient, exponent |-> exponent]
NaN(sign) ==
    [kind |-> "decimal", special |-> "NaN", sign |-> sign, coefficient |-> 0,
     exponent |-> 0]

\* decimal.Decimal(string): surrounding whitespace is dropped; then
\* [sign] (digits ['.' digits] | '.' digits | 'nan' [digits]), in any case.
DecimalFromString(string) ==
    LET t == Strip(string, Whitespace)
        signed == t # <<>> /\ Head(t) \in {"-", "+"}
        sign == IF signed /\ Head(t) = "-" THEN 1 ELSE 0
        body == IF signed THEN Tail(t) ELSE t
        dots == {i \in 1..Len(body) : body[i] = "."}
        digits == SelectSeq(body, LAMBDA c : c # ".")
        numeric == /\ digits # <<>>
                   /\ \A i \in 1..Len(digits) : digits[i] \in Digits
                   /\ Cardinality(dots) <= 1
        fraction == IF dots = {} THEN 0 ELSE Len(body) - FirstIn(dots)
        nan == /\ Len(body) >= 3
               /\ Lower(SubSeq(body, 1, 3)) = <<"n", "a", "n">>
               /\ \A i \in 4..Len(body) : body[i] \in Digits
    IN  IF numeric THEN Ok(MkDecimal(sign, Coefficient(digits, 0), 0 - fraction))
        ELSE IF nan THEN Ok(NaN(sign))
        ELSE Raise("InvalidOperation")

GroupSymbol(loc) == IF loc = "en_US" THEN "," ELSE "."
DecimalSymbol(loc) == IF loc = "en_US" THEN "." ELSE ","

\* babel.numbers.parse_decimal(string, locale):
\* Decimal(string.replace(group, '').replace(decimal, '.')); anything that
\* is not a string has no replace.
ParseDecimal(v, loc) ==
    IF v.kind # "text" THEN Raise("AttributeError")
    ELSE LET r == DecimalFromString(
                     Replace(Replace(v.chars, GroupSymbol(loc), <<>>),
                             DecimalSymbol(loc), <<".">>))
         IN  IF r.status = "ok" THEN r ELSE Raise("NumberFormatError")

\* for symbol in CURRENCY_SYMBOLS: d = d.strip(symbol)
RECURSIVE StripSymbols(_, _)
StripSymbols(s, symbols) ==
    IF symbols = <<>> THEN s
    ELSE StripSymbols(Strip(s, {Head(symbols)}), Tail(symbols))

\* Number.test(d)
NumberTest(v, loc) ==
    IF v.kind # "text" THEN Raise("AttributeError")
    ELSE LET s == StripSymbols(Strip(Strip(v.chars, Whitespace), {"%"}),
                               CURRENCY_SYMBOLS)
         IN  IF Lower(s) \in NullValues THEN Ok(TRUE)
             ELSE Ok(ParseDecimal([kind |-> "text", chars |-> s], loc).status = "ok")

\* 'Can not parse value "%s" as Decimal.' % d: a tuple on the right of % is
\* the argument list, and must then hold exactly one item.
FormatMessage(v) ==
    IF v.kind = "tuple" /\ v.len # 1 THEN Raise("TypeError") ELSE Ok("message")

\* Number.cast(d)
NumberCast(v, loc) ==
    IF v.kind \in {"decimal", "null"} THEN Ok(v)
    ELSE IF v.kind = "int" THEN
        Ok(MkDecimal(IF v.value < 0 THEN 1 ELSE 0,
                     IF v.value < 0 THEN 0 - v.value ELSE v.value, 0))
    ELSE IF v.kind = "float" THEN Raise("CastError")
    ELSE
      LET s == IF v.kind = "text"
               THEN [kind |-> "text", chars |-> Strip(v.chars, Whitespace)]
               ELSE v
      IN  IF s.kind = "text" /\ Lower(s.chars) \in NullValues
          THEN Ok([kind |-> "null"])
          ELSE LET r == ParseDecimal(s, loc)
               IN  IF r.status = "ok" THEN r
                   ELSE IF FormatMessage(s).status = "ok" THEN Raise("CastError")
                   ELSE FormatMessage(s)

RECURSIVE TextsOfLen(_)
TextsOfLen(n) ==
    IF n = 0 THEN {<<>>}
    ELSE {Append(t, c) : t \in TextsOfLen(n - 1), c \in Alphabet}
Texts == UNION {TextsOfLen(n) : n \in 0..MaxLen}

\* The values test and cast are handed.
Inputs ==
    {[kind |-> "text", chars |-> t] : t \in Texts}
    \cup {[kind |-> "int", value |-> n] : n \in {0 - 12, 0, 7}}
    \cup {[kind |-> "tuple", len |-> n] : n \in 0..2}
    \cup {[kind |-> "null"], [kind |-> "float"], [kind |-> "object"],
          MkDecimal(1, 15, 0 - 1), NaN(0)}

(***************************************************************************)
(* The caller: it builds a mapping, constructs a TableSet from it, may     *)
(* then change its own mapping, and queries the TableSet it built last.    *)
(***************************************************************************)
SetValues == {sets[i] : i \in 1..Len(sets)}
Latest == sets[Len(sets)]
KeyPairs == {p \in Keys \X Keys : p[1] # p[2]}

\* The mappings a caller builds, of up to two entries: of Tables at first,
\* and, once it holds a TableSet, mappings that nest the one it built last.
Groups ==
    IF sets = <<>> THEN
        {<<>>}
        \cup {<< <<k, TableA>> >> : k \in Keys}
        \cup {<< <<p[1], TableA>>, <<p[2], v>> >> :
                p \in KeyPairs, v \in TablePool \ {TableA}}
    ELSE
        {<< <<KeyA, Latest>> >>}
        \cup {<< <<KeyA, Latest>>, <<KeyB, v>> >> :
                v \in {TableA, TableC} \cup SetValues}
        \cup {<< <<KeyA, v>>, <<KeyB, Latest>> >> :
                v \in {TableA} \cup (SetValues \ {Latest})}

\* A caller names each level of grouping differently.
KeywordArgs ==
    IF sets = <<>> THEN InitArgs
    ELSE {kw \in InitArgs : kw.key_name # Latest.key_name}

\* Ids some TableSet refers to.
Referenced(h) ==
    {s.tables : s \in SetValues}
    \cup UNION {{h[i][j][2].tables :
                    j \in {l \in 1..Len(h[i]) : h[i][l][2].kind = "TableSet"}} :
                 i \in DOMAIN h}

\* group = OrderedDict(entries); TableSet(group, key_name, key_type).  The
\* caller keeps the new mapping when a TableSet was built from it, and is
\* left with the mapping it had when the construction raises.
Construct(entries, kw, capacity) ==
    LET h1 == IF group \in Referenced(heap) THEN heap ELSE Free(heap, group)
        g == Alloc(h1)
        h2 == h1 @@ (g :> entries)
        r == TableSetInit(h2, g, kw.key_name, kw.key_type)
    IN  /\ Cardinality(DOMAIN h2) < capacity
        /\ group' = IF r.status = "ok" THEN g ELSE group
        /\ heap' = IF r.status = "ok" THEN r.heap ELSE heap
        /\ sets' = IF r.status = "ok" THEN Append(sets, r.value) ELSE sets
        /\ result' = [op |-> "init", group |-> entries, kw |-> kw,
                      status |-> r.status,
                      exc |-> IF r.status = "ok" THEN None ELSE r.exc]
        /\ UNCHANGED numVars

\* group[k] = v, by the caller, on its own mapping
CallerSetItem(k, v) ==
    /\ heap' = [heap EXCEPT ![group] = DictSet(@, k, v)]
    /\ result' = [op |-> "setitem", status |-> "ok"]
    /\ UNCHANGED <<group, sets>>
    /\ UNCHANGED numVars

\* del group[k], by the caller, on its own mapping
CallerDelItem(k) ==
    /\ DictHas(heap[group], k)
    /\ heap' = [heap EXCEPT ![group] = DictDel(@, k)]
    /\ result' = [op |-> "delitem", status |-> "ok"]
    /\ UNCHANGED <<group, sets>>
    /\ UNCHANGED numVars

ExcOf(r) == IF r.status = "ok" THEN None ELSE r.exc

\* tableset.<method>(*args); the TableSet returned is read and dropped
Proxy(call) ==
    /\ sets # <<>>
    /\ LET r == ProxyCall(heap, Latest, call.method, call.args, Fuel(heap))
       IN  result' = [op |-> "proxy", call |-> call, status |-> r.status,
                      exc |-> ExcOf(r),
                      value |-> IF r.status = "ok"
                                THEN Tree(r.heap, r.value, Fuel(r.heap))
                                ELSE None]
    /\ UNCHANGED <<heap, group, sets>>
    /\ UNCHANGED numVars

\* tableset.<method>(*args).aggregate(aggregations)
ProxyAggregate(call, aggregations) ==
    /\ sets # <<>>
    /\ LET r == ProxyCall(heap, Latest, call.method, call.args, Fuel(heap))
           a == IF r.status = "ok" THEN Aggregate(r.heap, r.value, aggregations)
                ELSE r
       IN  result' = [op |-> "proxy_aggregate", call |-> call,
                      aggregations |-> aggregations, status |-> a.status,
                      exc |-> ExcOf(a),
                      value |-> IF a.status = "ok" THEN a.value ELSE None]
    /\ UNCHANGED <<heap, group, sets>>
    /\ UNCHANGED numVars

\* tableset.aggregate(aggregations)
AggregateCall(aggregations) ==
    /\ sets # <<>>
    /\ LET r == Aggregate(heap, Latest, aggregations)
       IN  result' = [op |-> "aggregate", aggregations |-> aggregations,
                      status |-> r.status, exc |-> ExcOf(r),
                      value |-> IF r.status = "ok" THEN r.value ELSE None]
    /\ UNCHANGED <<heap, group, sets>>
    /\ UNCHANGED numVars

\* tableset[k] (__getitem__)
GetItem(k) ==
    /\ sets # <<>>
    /\ LET m == heap[Latest.tables]
       IN  result' = IF DictHas(m, k)
                     THEN [op |-> "getitem", key |-> k, status |-> "ok",
                           exc |-> None, value |-> DictGet(m, k)]
                     ELSE [op |-> "getitem", key |-> k, status |-> "raise",
                           exc |-> "KeyError", value |-> None]
    /\ UNCHANGED <<heap, group, sets>>
    /\ UNCHANGED numVars

\* list(tableset) (__iter__)
Iterate ==
    /\ sets # <<>>
    /\ result' = [op |-> "iter", status |-> "ok", exc |-> None,
                  value |-> DictKeys(heap[Latest.tables])]
    /\ UNCHANGED <<heap, group, sets>>
    /\ UNCHANGED numVars

\* len(tableset) (__len__)
Length ==
    /\ sets # <<>>
    /\ result' = [op |-> "len", status |-> "ok", exc |-> None,
                  value |-> Len(heap[Latest.tables])]
    /\ UNCHANGED <<heap, group, sets>>
    /\ UNCHANGED numVars

\* TableSet.from_csv(dir_path, column_info, header); the TableSet returned
\* is read and dropped
FromCsvCall(is_dir, files, use_inference, header) ==
    /\ sets = <<>>
    /\ LET r == FromCsv(heap, is_dir, files, use_inference, header)
       IN  result' = [op |-> "from_csv", files |-> files, is_dir |-> is_dir,
                      status |-> r.status, exc |-> ExcOf(r),
                      value |-> IF r.status = "ok"
                                THEN Tree(r.heap, r.value, Fuel(r.heap))
                                ELSE None]
    /\ UNCHANGED <<heap, group, sets>>
    /\ UNCHANGED numVars

Init ==
    /\ heap = (1 :> <<>>)
    /\ group = 1
    /\ sets = <<>>
    /\ result = [op |-> "none", status |-> "ok"]
    /\ d = [kind |-> "null"]
    /\ locale = "en_US"
    /\ tested = NotRun
    /\ casted = NotRun

Step(capacity) ==
    \/ \E entries \in Groups, kw \in KeywordArgs : Construct(entries, kw, capacity)
    \/ CallerSetItem(KeyB, TableB)
    \/ CallerDelItem(KeyA)
    \/ \E call \in MethodCalls : Proxy(call)
    \/ \E call \in ChainedCalls : ProxyAggregate(call, <<>>)
    \/ \E aggregations \in AggregationLists : AggregateCall(aggregations)
    \/ \E k \in Keys : GetItem(k)
    \/ Iterate
    \/ Length
    \/ \E is_dir \in BOOLEAN, files \in Directories,
          use_inference \in BOOLEAN, header \in BOOLEAN :
            FromCsvCall(is_dir, files, use_inference, header)

Next == Step(MaxMaps)
NextDeep == Step(MaxMaps + 1)

Spec == Init /\ [][Next]_vars
SpecDeep == Init /\ [][NextDeep]_vars

\* number.test(d)
Test ==
    /\ tested = NotRun
    /\ tested' = NumberTest(d, locale)
    /\ UNCHANGED <<d, locale, casted>>
    /\ UNCHANGED tsVars

\* number.cast(d)
Cast ==
    /\ casted = NotRun
    /\ casted' = NumberCast(d, locale)
    /\ UNCHANGED <<d, locale, tested>>
    /\ UNCHANGED tsVars

NumInit ==
    /\ heap = (1 :> <<>>)
    /\ group = 1
    /\ sets = <<>>
    /\ result = [op |-> "none", status |-> "ok"]
    /\ d \in Inputs
    /\ locale \in Locales
    /\ tested = NotRun
    /\ casted = NotRun

NumNext == Test \/ Cast

NumSpec == NumInit /\ [][NumNext]_vars

(***************************************************************************)
(* Readings of the state the properties are stated over.                   *)
(***************************************************************************)
TreeOf(v) == Tree(heap, v, Fuel(heap))
IsOk(op) == result.op = op /\ result.status = "ok"

RECURSIVE TreeLeaves(_)
TreeLeaves(t) ==
    IF t.kind = "TableSet"
    THEN UNION {TreeLeaves(t.items[i][2]) : i \in 1..Len(t.items)}
    ELSE {t}

RECURSIVE FirstLeaf(_)
FirstLeaf(t) ==
    IF t.kind = "TableSet" /\ t.items # <<>> THEN FirstLeaf(t.items[1][2]) ELSE t

Schema(t) == <<t.column_names, t.column_types>>
Homogeneous(t) ==
    /\ t.kind = "TableSet"
    /\ t.items # <<>>
    /\ \A l \in TreeLeaves(t) : l.kind = "Table" /\ Schema(l) = Schema(FirstLeaf(t))
    /\ Schema(t) = Schema(FirstLeaf(t))

\* The members of a mapping whose schema is not the first member's.
Mismatched(entries) ==
    {i \in 1..Len(entries) :
        Schema(FirstLeaf(TreeOf(entries[i][2])))
            # Schema(FirstLeaf(TreeOf(entries[1][2])))}

LatestItems == heap[Latest.tables]
FlatLatest == \A i \in 1..Len(LatestItems) : LatestItems[i][2].kind = "Table"
NestedLatest == \A i \in 1..Len(LatestItems) : LatestItems[i][2].kind = "TableSet"

\* No TableSet reached through t mixes Tables and TableSets as members.
RECURSIVE Uniform(_)
Uniform(t) ==
    t.kind = "TableSet" =>
        /\ \A i, j \in 1..Len(t.items) : t.items[i][2].kind = t.items[j][2].kind
        /\ \A i \in 1..Len(t.items) : Uniform(t.items[i][2])

\* The arguments name columns the TableSet has.
ValidCall(call) ==
    call.method # "limit" =>
        \A i \in 1..Len(call.args) :
            \E j \in 1..Len(Latest.column_names) : Latest.column_names[j] = call.args[i]
ValidAggregations(aggregations) ==
    \A i \in 1..Len(aggregations) :
        \E j \in 1..Len(Latest.column_names) :
            /\ Latest.column_names[j] = aggregations[i][1]
            /\ aggregations[i][2] = "Sum" => Latest.column_types[j] = "Number"

\* A TableSet read as its key_name and its members by key, and the same
\* reading of what an operation gives when it is applied to each leaf.
RECURSIVE KeyTree(_)
KeyTree(t) ==
    IF t.kind # "TableSet" THEN t
    ELSE [kind |-> "KeyTree", key_name |-> t.key_name,
          items |-> [i \in 1..Len(t.items) |-> <<t.items[i][1], KeyTree(t.items[i][2])>>]]

RECURSIVE Applied(_, _)
Applied(t, call) ==
    IF t.kind # "TableSet" THEN TableMethod(t, call.method, call.args)
    ELSE LET rs == [i \in 1..Len(t.items) |-> Applied(t.items[i][2], call)]
         IN  IF \E i \in 1..Len(t.items) : rs[i].status # "ok" THEN Raise("member")
             ELSE IF \E i \in 1..Len(t.items) : rs[i].value.kind = "Value"
             THEN Raise("values")
             ELSE Ok([kind |-> "KeyTree", key_name |-> t.key_name,
                      items |-> [i \in 1..Len(t.items) |-> <<t.items[i][1], rs[i].value>>]])

(***************************************************************************)
(* C1: every TableSet that exists is homogeneous: each leaf Table reached  *)
(* through it has the column names and column types of its sample table,   *)
(* the first Table found by descending through first members.  A           *)
(* construction succeeds only if every member of the mapping has the       *)
(* sample's schema, a mapping with a member of another schema is rejected  *)
(* with the schema error, and a new TableSet iterates its keys in the      *)
(* order of the mapping it was built from.                                 *)
(***************************************************************************)
C1_SchemaHomogeneity ==
    /\ \A i \in 1..Len(sets) :
          /\ Homogeneous(TreeOf(sets[i]))
          /\ sets[i].sample_table = FirstLeaf(TreeOf(sets[i]))
    /\ (IsOk("proxy") \/ IsOk("from_csv")) => Homogeneous(result.value)
    /\ result.op = "init" =>
          /\ result.status = "ok" =>
                /\ result.group # <<>>
                /\ Mismatched(result.group) = {}
                /\ LatestItems = result.group
                /\ DictKeys(LatestItems) = DictKeys(result.group)
          /\ (result.group # <<>> /\ Mismatched(result.group) # {}) =>
                /\ result.status = "raise"
                /\ result.exc \in {"ValueError: column names",
                                   "ValueError: column types"}
          /\ (result.group # <<>> /\ Mismatched(result.group) = {}) =>
                result.status = "ok"

\* C1 witness: a TableSet of two members, one of them a TableSet, was built.
C1_Witness ==
    /\ IsOk("init")
    /\ Len(result.group) = 2
    /\ \E i \in 1..2 : result.group[i][2].kind = "TableSet"

C3_FlatAggregate ==
    (result.op = "aggregate" /\ FlatLatest /\ ValidAggregations(result.aggregations)) =>
        LET aggs == result.aggregations
            n == Len(aggs)
        IN  /\ result.status = "ok"
            /\ result.value.kind = "Table"
            /\ result.value.column_names =
                  <<Latest.key_name>> \o [i \in 1..n |-> aggs[i][3]]
            /\ result.value.column_types =
                  <<Latest.key_type>> \o
                  [i \in 1..n |->
                      AggregateColumnType(aggs[i][2], Latest.sample_table, aggs[i][1])]
            /\ Len(result.value.rows) = Len(LatestItems)
            /\ \A m \in 1..Len(LatestItems) :
                  /\ Len(result.value.rows[m]) = n + 1
                  /\ result.value.rows[m][1] = LatestItems[m][1]
                  /\ \A i \in 1..n :
                        result.value.rows[m][i + 1] =
                            ColumnAggregate(aggs[i][2], LatestItems[m][2], aggs[i][1]).value
            /\ n = 0 => Len(result.value.column_names) = 1

\* C3 witness: two triples were aggregated over members b, a in that order.
C3_Witness ==
    /\ IsOk("aggregate")
    /\ FlatLatest
    /\ Len(result.aggregations) = 2
    /\ DictKeys(LatestItems) = <<KeyB, KeyA>>

(***************************************************************************)
(* C4: aggregate on an accepted TableSet whose members are all TableSets   *)
(* returns one Table in which every row holds exactly one value per output *)
(* column, one row per leaf Table.  It is stated for the accepted          *)
(* TableSets in which no level mixes Tables and TableSets.                 *)
(***************************************************************************)
C4_NestedAggregateWellFormed ==
    (result.op = "aggregate" /\ NestedLatest /\ Uniform(TreeOf(Latest))
        /\ ValidAggregations(result.aggregations)) =>
        /\ result.status = "ok"
        /\ result.value.kind = "Table"
        /\ Len(result.value.column_names) = Len(result.value.column_types)
        /\ \A r \in 1..Len(result.value.rows) :
              Len(result.value.rows[r]) = Len(result.value.column_names)

(***************************************************************************)
(* C7: constructing a TableSet from a mapping with no members, directly or *)
(* through from_csv on a directory with no CSV files, fails with an error  *)
(* of its own and not with the IndexError of the sample-table lookup.      *)
(***************************************************************************)
C7_EmptyGroupDedicatedError ==
    (\/ result.op = "init" /\ result.group = <<>>
     \/ result.op = "from_csv" /\ result.is_dir /\ result.files = <<>>
            /\ result.exc # "ValueError: TypeTester without headers") =>
        /\ result.status = "raise"
        /\ result.exc # "IndexError"

(***************************************************************************)
(* C8: on a TableSet of Tables, an operation that returns a Table on a     *)
(* Table returns a new TableSet, and one that returns a single value on a  *)
(* Table (pearson_correlation) returns a dictionary from each key to that  *)
(* member's value.                                                         *)
(***************************************************************************)
C8_ValuesBecomeDictionary ==
    (result.op = "proxy" /\ FlatLatest /\ ValidCall(result.call)) =>
        /\ result.status = "ok"
        /\ IF result.call.method = "pearson_correlation"
           THEN /\ result.value.kind = "dict"
                /\ result.value.items =
                      [i \in 1..Len(LatestItems) |->
                          <<LatestItems[i][1],
                            TableMethod(LatestItems[i][2], result.call.method,
                                        result.call.args).value>>]
           ELSE result.value.kind = "TableSet"

(***************************************************************************)
(* C9: no step changes a TableSet that exists: not the caller's changes to *)
(* the mapping it was built from, nor a lookup, an iteration, a proxied    *)
(* operation or an aggregate, failed or not.  Its keys in order, the       *)
(* member under each key, its key_name and its key_type stay as they are,  *)
(* and every aggregate call gives after the step what it gave before.      *)
(***************************************************************************)
C9_ContentsFixed ==
    [][\A i \in 1..Len(sets) :
          /\ Len(sets') >= i
          /\ sets'[i] = sets[i]
          /\ \/ heap' = heap
             \/ /\ heap'[sets[i].tables] = heap[sets[i].tables]
                /\ Tree(heap', sets[i], Fuel(heap')) = Tree(heap, sets[i], Fuel(heap))
                /\ \A aggregations \in AggregationLists :
                      Aggregate(heap', sets[i], aggregations)
                          = Aggregate(heap, sets[i], aggregations)]_vars

\* C9 witness: the caller deleted key a from its mapping of two entries
\* after the TableSet was built from it, and aggregate was then called.
C9_Witness ==
    /\ IsOk("aggregate")
    /\ Len(LatestItems) = 2
    /\ heap[group] = DictDel(LatestItems, KeyA)
    /\ Len(result.value.rows) = 2

(***************************************************************************)
(* C10: the TableSet a proxied operation returns has the text key_type and *)
(* the key_name of the TableSet it was called on; aggregate on it declares *)
(* the key column as text, and aggregate on the original declares it with  *)
(* the original's key_type.                                                *)
(***************************************************************************)
C10_ProxyDropsKeyType ==
    /\ IsOk("proxy") =>
          /\ result.value.key_type = "Text"
          /\ result.value.key_name = Latest.key_name
    /\ IsOk("proxy_aggregate") =>
          /\ result.value.column_types[1] = "Text"
          /\ result.value.column_names[1] = Latest.key_name
    /\ IsOk("aggregate") => result.value.column_types[1] = Latest.key_type

\* C10 witness: a proxied result of a TableSet keyed by Number was aggregated.
C10_Witness ==
    /\ IsOk("proxy_aggregate")
    /\ Latest.key_type = "Number"

(***************************************************************************)
(* C5: for every text, test returns true exactly when cast succeeds, and   *)
(* test raises nothing.                                                    *)
(***************************************************************************)
C5_TestIffCast ==
    (d.kind = "text" /\ tested # NotRun /\ casted # NotRun) =>
        /\ tested.status = "ok"
        /\ tested.value <=> casted.status = "ok"

(***************************************************************************)
(* C6: cast either returns a decimal or null, or raises CastError, and     *)
(* nothing else: a float raises CastError, an integer gives the equal      *)
(* decimal, a decimal or null comes back unchanged.                        *)
(***************************************************************************)
C6_CastErrorOnly ==
    casted # NotRun =>
        /\ \/ casted.status = "ok" /\ casted.value.kind \in {"decimal", "null"}
           \/ casted.status = "raise" /\ casted.exc = "CastError"
        /\ d.kind = "float" => casted.status = "raise"
        /\ d.kind \in {"decimal", "null"} => casted = Ok(d)
        /\ d.kind = "int" =>
              /\ casted.status = "ok"
              /\ casted.value.exponent = 0
              /\ casted.value.coefficient * (1 - 2 * casted.value.sign) = d.value
====
